---- MODULE Spec2Model ----
(***************************************************************************)
(* Model of package crypto of Krypt (pkg/crypto/crypto.go): Encrypt,       *)
(* Decrypt, Pbkdf2 and RandBytes, together with the process-wide state     *)
(* they share (the sync.Once setSeed and the math/rand global generator).  *)
(*                                                                         *)
(* The Go standard library primitives the package calls (aes.NewCipher,    *)
(* cipher.NewGCM, gcm.Seal, gcm.Open, pbkdf2.Key, math/rand, sync.Once)    *)
(* are modelled by what they do at the level of byte sequences: key size   *)
(* check, counter-mode keystream XOR, a polynomial authenticator over the  *)
(* ciphertext masked with a keyed block, exact tag comparison.  The block  *)
(* cipher and the hash are small keyed mixing functions standing in for    *)
(* AES and SHA-256.                                                        *)
(***************************************************************************)
EXTENDS Integers, Sequences, FiniteSets, TLC

VARIABLES
    setSeed,    \* sync.Once: [done: BOOLEAN, m: 0 or the goroutine holding the mutex]
    rng,        \* math/rand global source: [seeded, seed, pos (bytes drawn since seeding)]
    seedings,   \* history: number of rand.Seed executions in this process lifetime
    pc,         \* position of each goroutine inside RandBytes
    req,        \* RandBytes' parameter len, per goroutine
    calls,      \* history: RandBytes calls completed, per goroutine
    out,        \* last RandBytes result per goroutine: [b, seeded (generator seeded when read)]
    env,        \* the most recent Encrypt call that returned an envelope
    last,       \* the call that has just returned to the caller, with its results
    derived,    \* the first Pbkdf2 call of the run, kept as a reference
    issued,     \* history: <<key, nonce>> of every envelope returned, across process runs
    runs        \* history: number of process lifetimes started

vars == <<setSeed, rng, seedings, pc, req, calls, out, env, last, derived, issued, runs>>

----------------------------------------------------------------------------
(* Bounds of the model *)

MaxLen == 2
MaxClock == 2
MaxDraws == 2
MaxCalls == 2
MaxRuns == 2
MaxIssued == 2
NumGoroutines == 2

----------------------------------------------------------------------------
(* Constants of the program and of the library calls it makes *)

NonceSize == 12
TagSize == 16
BlockSize == 16
KeySizes == {16, 24, 32}
iter == 4096
klen == 32
HashSize == 32
DefaultSeed == 1
FieldPrime == 32749

----------------------------------------------------------------------------
(* Bytes *)

RECURSIVE Xor(_, _)
Xor(a, b) ==
    IF a = 0 /\ b = 0 THEN 0
    ELSE (((a % 2) + (b % 2)) % 2) + 2 * Xor(a \div 2, b \div 2)

Pow2(n) == CASE n = 0 -> 1 [] n = 1 -> 2 [] n = 2 -> 4 [] n = 3 -> 8
             [] n = 4 -> 16 [] n = 5 -> 32 [] n = 6 -> 64 [] OTHER -> 128

FlipBit(s, i, bit) == [s EXCEPT ![i] = Xor(@, Pow2(bit))]

Repeat(b, n) == [i \in 1..n |-> b]

Weight(i) == (i * i * 37 + i * 101 + 11) % FieldPrime

RECURSIVE DigestOf(_, _, _)
DigestOf(s, lo, hi) ==
    IF lo > hi THEN 0
    ELSE IF lo = hi THEN ((s[lo] + 1) * Weight(lo)) % FieldPrime
    ELSE LET mid == (lo + hi) \div 2
         IN  (DigestOf(s, lo, mid) + DigestOf(s, mid + 1, hi)) % FieldPrime

Digest(s, n) == (DigestOf(s, 1, n) + 31 * n + 7) % FieldPrime

----------------------------------------------------------------------------
(* crypto/aes and crypto/cipher *)

\* aes.NewCipher that accepts every key of at least 16 bytes
NewCipherAtLeast16(key) == IF Len(key) >= 16 THEN "nil" ELSE "KeySizeError"

NewCipher(key) == IF Len(key) \in KeySizes THEN "nil" ELSE "KeySizeError"

AESBlock(key, block) ==
    LET s == key \o block
        d == Digest(s, Len(s))
    IN  [j \in 1..BlockSize |-> (d * (2 * j + 1) + j * j + (d \div 256)) % 256]

CounterBlock(nonce, c) == nonce \o <<0, 0, (c \div 256), (c % 256)>>

HashKey(key) ==
    LET h == AESBlock(key, Repeat(0, BlockSize))
    IN  1 + ((h[1] * 256 + h[2]) % (FieldPrime - 1))

XORKeyStream(key, nonce, data) ==
    [i \in 1..Len(data) |->
        Xor(data[i],
            AESBlock(key, CounterBlock(nonce, 2 + ((i - 1) \div BlockSize)))
                [((i - 1) % BlockSize) + 1])]

RECURSIVE GHashFrom(_, _, _)
GHashFrom(h, data, n) ==
    IF n = 0 THEN 0 ELSE ((GHashFrom(h, data, n - 1) + data[n]) * h) % FieldPrime

GHash(h, data) == ((GHashFrom(h, data, Len(data)) + Len(data)) * h) % FieldPrime

GcmTag(key, nonce, ct) ==
    LET m == AESBlock(key, CounterBlock(nonce, 1))
        s == GHash(HashKey(key), ct)
        w(j) == (s + m[2 * j - 1] * 256 + m[2 * j]) % FieldPrime
    IN  [i \in 1..TagSize |->
            IF (i % 2) = 1 THEN (w((i + 1) \div 2) \div 256) ELSE (w(i \div 2) % 256)]

GcmSeal(key, dst, nonce, plaintext) ==
    LET ct == XORKeyStream(key, nonce, plaintext)
    IN  dst \o ct \o GcmTag(key, nonce, ct)

GcmOpen(key, nonce, ciphertext) ==
    IF Len(ciphertext) < TagSize
    THEN [out |-> <<>>, err |-> "errOpen"]
    ELSE LET n   == Len(ciphertext) - TagSize
             ct  == SubSeq(ciphertext, 1, n)
             tag == SubSeq(ciphertext, n + 1, Len(ciphertext))
         IN  IF GcmTag(key, nonce, ct) # tag
             THEN [out |-> <<>>, err |-> "errOpen"]
             ELSE [out |-> XORKeyStream(key, nonce, ct), err |-> "nil"]

----------------------------------------------------------------------------
(* math/rand *)

GenByte(seed, idx) ==
    ((seed * 167 + idx * 59 + (seed + idx) * (seed + idx)) * 13 + 7) % 256

GenBytes(seed, pos, n) == [i \in 1..n |-> GenByte(seed, pos + i)]

----------------------------------------------------------------------------
(* golang.org/x/crypto/pbkdf2 *)

Pbkdf2Block(pw, salt, iterations, blockNum) ==
    LET s == pw \o <<255>> \o salt \o <<blockNum>>
        d == Digest(s, Len(s))
    IN  [j \in 1..HashSize |-> (d * (2 * j + 1) + iterations * j + (d \div 256)) % 256]

RECURSIVE Pbkdf2Blocks(_, _, _, _)
Pbkdf2Blocks(pw, salt, iterations, n) ==
    IF n = 0 THEN <<>>
    ELSE Pbkdf2Blocks(pw, salt, iterations, n - 1) \o Pbkdf2Block(pw, salt, iterations, n)

Pbkdf2Key(pw, salt, iterations, keyLen) ==
    LET numBlocks == (keyLen + HashSize - 1) \div HashSize
    IN  SubSeq(Pbkdf2Blocks(pw, salt, iterations, numBlocks), 1, keyLen)

----------------------------------------------------------------------------
(* package crypto *)

\* Encrypt that seals into a fresh buffer: Seal(nil, nonce, src, nil)
EncryptNoPrefix(src, key, nonce) ==
    IF NewCipher(key) # "nil"
    THEN [enc |-> <<>>, err |-> NewCipher(key)]
    ELSE [enc |-> GcmSeal(key, <<>>, nonce, src), err |-> "nil"]

\* Encrypt that puts the nonce after the sealed bytes
EncryptNonceLast(src, key, nonce) ==
    IF NewCipher(key) # "nil"
    THEN [enc |-> <<>>, err |-> NewCipher(key)]
    ELSE [enc |-> GcmSeal(key, <<>>, nonce, src) \o nonce, err |-> "nil"]

Encrypt(src, key, nonce) ==
    IF NewCipher(key) # "nil"
    THEN [enc |-> <<>>, err |-> NewCipher(key)]
    ELSE [enc |-> GcmSeal(key, nonce, nonce, src), err |-> "nil"]

\* Decrypt whose length check is off by one; ct[:nonceSize] then panics
DecryptOffByOne(ct, key) ==
    IF NewCipher(key) # "nil"
    THEN [clt |-> <<>>, err |-> NewCipher(key), nonce |-> <<>>, body |-> <<>>]
    ELSE IF Len(ct) < NonceSize - 1
    THEN [clt |-> <<>>, err |-> "ErrNoNonce", nonce |-> <<>>, body |-> <<>>]
    ELSE IF Len(ct) < NonceSize
    THEN [clt |-> <<>>, err |-> "panic", nonce |-> <<>>, body |-> <<>>]
    ELSE LET nonce == SubSeq(ct, 1, NonceSize)
             body  == SubSeq(ct, NonceSize + 1, Len(ct))
             r     == GcmOpen(key, nonce, body)
         IN  [clt |-> r.out, err |-> r.err, nonce |-> nonce, body |-> body]

\* Decrypt that drops the error of Open: clt, _ = aesgcm.Open(...)
DecryptDropErr(ct, key) ==
    IF NewCipher(key) # "nil"
    THEN [clt |-> <<>>, err |-> NewCipher(key), nonce |-> <<>>, body |-> <<>>]
    ELSE IF Len(ct) < NonceSize
    THEN [clt |-> <<>>, err |-> "ErrNoNonce", nonce |-> <<>>, body |-> <<>>]
    ELSE LET nonce == SubSeq(ct, 1, NonceSize)
             body  == SubSeq(ct, NonceSize + 1, Len(ct))
             r     == GcmOpen(key, nonce, body)
         IN  [clt |-> r.out, err |-> "nil", nonce |-> nonce, body |-> body]

\* Decrypt that decrypts the counter-mode stream and reports a tag mismatch
\* only when the tag is missing
DecryptUnauthenticated(ct, key) ==
    IF NewCipher(key) # "nil"
    THEN [clt |-> <<>>, err |-> NewCipher(key), nonce |-> <<>>, body |-> <<>>]
    ELSE IF Len(ct) < NonceSize
    THEN [clt |-> <<>>, err |-> "ErrNoNonce", nonce |-> <<>>, body |-> <<>>]
    ELSE LET nonce == SubSeq(ct, 1, NonceSize)
             body  == SubSeq(ct, NonceSize + 1, Len(ct))
         IN  IF Len(body) < TagSize
             THEN [clt |-> <<>>, err |-> "errOpen", nonce |-> nonce, body |-> body]
             ELSE [clt |-> XORKeyStream(key, nonce, SubSeq(body, 1, Len(body) - TagSize)),
                   err |-> "nil", nonce |-> nonce, body |-> body]

\* Decrypt that examines the length of ct before the key
DecryptLenFirst(ct, key) ==
    IF Len(ct) < NonceSize
    THEN [clt |-> <<>>, err |-> "ErrNoNonce", nonce |-> <<>>, body |-> <<>>]
    ELSE IF NewCipher(key) # "nil"
    THEN [clt |-> <<>>, err |-> NewCipher(key), nonce |-> <<>>, body |-> <<>>]
    ELSE LET nonce == SubSeq(ct, 1, NonceSize)
             body  == SubSeq(ct, NonceSize + 1, Len(ct))
             r     == GcmOpen(key, nonce, body)
         IN  [clt |-> r.out, err |-> r.err, nonce |-> nonce, body |-> body]

Decrypt(ct, key) ==
    IF NewCipher(key) # "nil"
    THEN [clt |-> <<>>, err |-> NewCipher(key), nonce |-> <<>>, body |-> <<>>]
    ELSE IF Len(ct) < NonceSize
    THEN [clt |-> <<>>, err |-> "ErrNoNonce", nonce |-> <<>>, body |-> <<>>]
    ELSE LET nonce == SubSeq(ct, 1, NonceSize)
             body  == SubSeq(ct, NonceSize + 1, Len(ct))
             r     == GcmOpen(key, nonce, body)
         IN  [clt |-> r.out, err |-> r.err, nonce |-> nonce, body |-> body]

\* Pbkdf2 that draws part of the salt from the generator
Pbkdf2RandomSalt(pw, salt) ==
    Pbkdf2Key(pw, salt \o GenBytes(rng.seed, rng.pos, 1), iter, klen)

Pbkdf2(pw, salt) == Pbkdf2Key(pw, salt, iter, klen)


(* RandBytes run to completion by one goroutine: setSeed.Do, then rand.Read.
   now is the value time.Now().UnixNano() returns if the seeding runs. *)
RandBytes(n, now) ==
    LET seeded == IF setSeed.done THEN rng
                  ELSE [seeded |-> TRUE, seed |-> now, pos |-> 0]
    IN  [b        |-> GenBytes(seeded.seed, seeded.pos, n),
         rng      |-> [seeded EXCEPT !.pos = @ + n],
         setSeed  |-> [done |-> TRUE, m |-> 0],
         seedings |-> IF setSeed.done THEN seedings ELSE seedings + 1]

----------------------------------------------------------------------------
(* Inputs *)

Goroutines == 1..NumGoroutines
Clock == 1..MaxClock

Hello == <<104, 101, 108, 108, 111>>
Plaintexts == {SubSeq(Hello, 1, n) : n \in 0..MaxLen}

Key(n, fill) == [i \in 1..n |-> (fill * 16 + i) % 256]
Keys == {Key(n, 0) : n \in {0, 16, 24, 32, 33}} \cup {Key(32, 9)}

Passphrases == {<<>>, <<112, 119>>}
Salts == {<<>>, <<115>>}
RandLens == {0, NonceSize}

\* Lengths at which an envelope of length n is cut: every length up to
\* NonceSize and the boundaries of Decrypt's other cases
CutLens(n) ==
    (0..NonceSize \cup {NonceSize + TagSize - 1, NonceSize + TagSize, n - 1})
        \cap 0..(n - 1)

NoCall == [op |-> "none", in |-> <<>>, key |-> <<>>, salt |-> <<>>,
           out |-> <<>>, err |-> "nil", nonce |-> <<>>, body |-> <<>>]
NoEnv == [ok |-> FALSE, src |-> <<>>, key |-> <<>>, nonce |-> <<>>, enc |-> <<>>]
NoDerived == [set |-> FALSE, pw |-> <<>>, salt |-> <<>>, key |-> <<>>, at |-> 0]

goVars == <<pc, req, calls, out>>
rngVars == <<setSeed, rng, seedings>>

Init ==
    /\ setSeed = [done |-> FALSE, m |-> 0]
    /\ rng = [seeded |-> FALSE, seed |-> DefaultSeed, pos |-> 0]
    /\ seedings = 0
    /\ pc = [g \in Goroutines |-> "idle"]
    /\ req = [g \in Goroutines |-> 0]
    /\ calls = [g \in Goroutines |-> 0]
    /\ out = [g \in Goroutines |-> [b |-> <<>>, seeded |-> FALSE]]
    /\ env = NoEnv
    /\ last = NoCall
    /\ derived = NoDerived
    /\ issued = <<>>
    /\ runs = 1

Idle == last.op = "none"

----------------------------------------------------------------------------
(* The calls of one goroutine, each run to completion *)

EncryptBody(src, key, now) ==
    /\ Idle
    /\ IF NewCipher(key) # "nil"
       THEN /\ last' = [NoCall EXCEPT !.op = "Encrypt", !.in = src, !.key = key,
                                      !.out = Encrypt(src, key, <<>>).enc,
                                      !.err = Encrypt(src, key, <<>>).err]
            /\ UNCHANGED <<rngVars, env>>
       ELSE LET r == RandBytes(NonceSize, now)
                e == Encrypt(src, key, r.b)
            IN  /\ r.rng.pos <= MaxDraws * NonceSize
                /\ rng' = r.rng
                /\ setSeed' = r.setSeed
                /\ seedings' = r.seedings
                /\ last' = [NoCall EXCEPT !.op = "Encrypt", !.in = src, !.key = key,
                                          !.out = e.enc, !.err = e.err, !.nonce = r.b]
                /\ env' = [ok |-> TRUE, src |-> src, key |-> key,
                           nonce |-> r.b, enc |-> e.enc]
    /\ UNCHANGED <<goVars, derived, runs>>

EncryptCall(src, key, now) ==
    /\ EncryptBody(src, key, now)
    /\ UNCHANGED issued

DecryptCall(ct, key) ==
    /\ Idle
    /\ LET d == Decrypt(ct, key)
       IN  last' = [NoCall EXCEPT !.op = "Decrypt", !.in = ct, !.key = key,
                                  !.out = d.clt, !.err = d.err,
                                  !.nonce = d.nonce, !.body = d.body]
    /\ UNCHANGED <<rngVars, goVars, env, derived, issued, runs>>

DecryptEnvelope(key) == DecryptCall(env.enc, key)

DecryptTampered(i, bit) ==
    /\ env.ok
    /\ DecryptCall(FlipBit(env.enc, i, bit), env.key)

DecryptTruncated(n, key) ==
    /\ env.ok
    /\ DecryptCall(SubSeq(env.enc, 1, n), key)

Pbkdf2Call(pw, salt) ==
    /\ Idle
    /\ LET k == Pbkdf2(pw, salt)
       IN  /\ last' = [NoCall EXCEPT !.op = "Pbkdf2", !.in = pw, !.salt = salt, !.out = k]
           /\ derived' = IF derived.set THEN derived
                         ELSE [set |-> TRUE, pw |-> pw, salt |-> salt, key |-> k,
                               at |-> rng.pos]
    /\ UNCHANGED <<rngVars, goVars, env, issued, runs>>

RandBytesCall(n, now) ==
    /\ Idle
    /\ LET r == RandBytes(n, now)
       IN  /\ r.rng.pos <= MaxDraws * NonceSize
           /\ rng' = r.rng
           /\ setSeed' = r.setSeed
           /\ seedings' = r.seedings
           /\ last' = [NoCall EXCEPT !.op = "RandBytes", !.out = r.b]
    /\ UNCHANGED <<goVars, env, derived, issued, runs>>

Return ==
    /\ ~Idle
    /\ last' = NoCall
    /\ UNCHANGED <<rngVars, goVars, env, derived, issued, runs>>

Next ==
    \/ \E src \in Plaintexts, key \in Keys, now \in Clock : EncryptCall(src, key, now)
    \/ \E key \in Keys : DecryptEnvelope(key)
    \/ \E i \in (NonceSize + 1)..Len(env.enc), bit \in 0..7 : DecryptTampered(i, bit)
    \/ \E n \in CutLens(Len(env.enc)), key \in Keys : DecryptTruncated(n, key)
    \/ \E n \in RandLens, now \in Clock : RandBytesCall(n, now)
    \/ Return

Spec == Init /\ [][Next]_vars

----------------------------------------------------------------------------
(* Key derivation interleaved with the other calls *)

NextKdf ==
    \/ \E pw \in Passphrases, salt \in Salts : Pbkdf2Call(pw, salt)
    \/ \E key \in {Key(32, 0), Key(0, 0)}, now \in Clock :
           EncryptCall(SubSeq(Hello, 1, MaxLen), key, now)
    \/ \E key \in {Key(32, 0), Key(32, 9)} : DecryptEnvelope(key)
    \/ \E n \in RandLens, now \in Clock : RandBytesCall(n, now)
    \/ Return

SpecKdf == Init /\ [][NextKdf]_vars

----------------------------------------------------------------------------
(* Envelopes returned over several process lifetimes.  The key outlives the
   process (EncryptWithKey reads it from the key file); setSeed and the
   generator do not. *)

EncryptLogged(src, key, now) ==
    /\ Len(issued) < MaxIssued
    /\ EncryptBody(src, key, now)
    /\ issued' = IF NewCipher(key) = "nil"
                 THEN Append(issued, [key |-> key, nonce |-> SubSeq(last'.out, 1, NonceSize)])
                 ELSE issued

Restart ==
    /\ Idle
    /\ runs < MaxRuns
    /\ runs' = runs + 1
    /\ setSeed' = [done |-> FALSE, m |-> 0]
    /\ rng' = [seeded |-> FALSE, seed |-> DefaultSeed, pos |-> 0]
    /\ seedings' = 0
    /\ UNCHANGED <<goVars, env, last, derived, issued>>

NextRuns ==
    \/ \E src \in Plaintexts, key \in Keys, now \in Clock : EncryptLogged(src, key, now)
    \/ Restart
    \/ Return

SpecRuns == Init /\ [][NextRuns]_vars

----------------------------------------------------------------------------
(* Goroutines calling RandBytes concurrently: the steps of setSeed.Do
   (sync.Once: fast-path load of done, then under the mutex a second load,
   the function, the deferred store of done, the deferred unlock) and
   rand.Read, which holds the generator's own lock. *)

onceVars == <<env, last, derived, issued, runs>>

Call(g, n) ==
    /\ pc[g] = "idle"
    /\ calls[g] < MaxCalls
    /\ req' = [req EXCEPT ![g] = n]
    /\ pc' = [pc EXCEPT ![g] = "fast"]
    /\ UNCHANGED <<rngVars, calls, out, onceVars>>

DoFast(g) ==
    /\ pc[g] = "fast"
    /\ pc' = [pc EXCEPT ![g] = IF setSeed.done THEN "read" ELSE "lock"]
    /\ UNCHANGED <<rngVars, req, calls, out, onceVars>>

\* setSeed.Do that does not load done again once it holds the mutex
DoLockNoRecheck(g) ==
    /\ pc[g] = "lock"
    /\ setSeed.m = 0
    /\ setSeed' = [setSeed EXCEPT !.m = g]
    /\ pc' = [pc EXCEPT ![g] = "seed"]
    /\ UNCHANGED <<rng, seedings, req, calls, out, onceVars>>

DoLock(g) ==
    /\ pc[g] = "lock"
    /\ setSeed.m = 0
    /\ setSeed' = [setSeed EXCEPT !.m = g]
    /\ pc' = [pc EXCEPT ![g] = IF setSeed.done THEN "unlock" ELSE "seed"]
    /\ UNCHANGED <<rng, seedings, req, calls, out, onceVars>>

DoSeed(g, now) ==
    /\ pc[g] = "seed"
    /\ rng' = [seeded |-> TRUE, seed |-> now, pos |-> 0]
    /\ seedings' = seedings + 1
    /\ pc' = [pc EXCEPT ![g] = "store"]
    /\ UNCHANGED <<setSeed, req, calls, out, onceVars>>

DoStore(g) ==
    /\ pc[g] = "store"
    /\ setSeed' = [setSeed EXCEPT !.done = TRUE]
    /\ pc' = [pc EXCEPT ![g] = "unlock"]
    /\ UNCHANGED <<rng, seedings, req, calls, out, onceVars>>

DoUnlock(g) ==
    /\ pc[g] = "unlock"
    /\ setSeed' = [setSeed EXCEPT !.m = 0]
    /\ pc' = [pc EXCEPT ![g] = "read"]
    /\ UNCHANGED <<rng, seedings, req, calls, out, onceVars>>

Read(g) ==
    /\ pc[g] = "read"
    /\ out' = [out EXCEPT ![g] = [b |-> GenBytes(rng.seed, rng.pos, req[g]),
                                  seeded |-> rng.seeded]]
    /\ rng' = [rng EXCEPT !.pos = @ + req[g]]
    /\ calls' = [calls EXCEPT ![g] = @ + 1]
    /\ pc' = [pc EXCEPT ![g] = "idle"]
    /\ UNCHANGED <<setSeed, seedings, req, onceVars>>

NextOnce ==
    \/ \E g \in Goroutines, n \in RandLens : Call(g, n)
    \/ \E g \in Goroutines : DoFast(g)
    \/ \E g \in Goroutines : DoLock(g)
    \/ \E g \in Goroutines, now \in Clock : DoSeed(g, now)
    \/ \E g \in Goroutines : DoStore(g)
    \/ \E g \in Goroutines : DoUnlock(g)
    \/ \E g \in Goroutines : Read(g)

SpecOnce == Init /\ [][NextOnce]_vars

----------------------------------------------------------------------------
(* Properties *)

ValidKey(k) == Len(k) \in KeySizes

Ops == {"Encrypt", "Decrypt"}

\* t is e with exactly one bit flipped in a byte after the first NonceSize bytes
BodyBitFlip(e, t) ==
    /\ Len(t) = Len(e)
    /\ \E i \in (NonceSize + 1)..Len(e) :
          /\ Xor(e[i], t[i]) \in {1, 2, 4, 8, 16, 32, 64, 128}
          /\ \A j \in 1..Len(e) : j # i => t[j] = e[j]

\* C1: decrypting the envelope Encrypt returned, with the key it was sealed
\* under, returns the plaintext that was encrypted and no error, for every
\* plaintext (the empty one included) and whatever nonce RandBytes drew.
C1_RoundTrip ==
    (last.op = "Decrypt" /\ env.ok /\ last.in = env.enc /\ last.key = env.key)
        => (last.err = "nil" /\ last.out = env.src)

C1_Witness ==
    /\ last.op = "Decrypt" /\ env.ok /\ last.in = env.enc /\ last.key = env.key
    /\ last.err = "nil" /\ last.out = env.src /\ Len(env.src) > 0
    /\ rng.pos = 2 * NonceSize

\* C2 as stated: Encrypt and Decrypt fail with the key error, returning no
\* output, whenever the key is not exactly 32 bytes long, and accept the key
\* only when it is 32 bytes long.
C2_Only32 ==
    last.op \in Ops =>
        /\ (Len(last.key) # 32) <=> (last.err = "KeySizeError")
        /\ last.err = "KeySizeError" => last.out = <<>>

\* C2 amended: Encrypt and Decrypt fail with the key error, returning no
\* output, exactly when the key is not 16, 24 or 32 bytes long.
C2_KeySizes ==
    last.op \in Ops =>
        /\ (Len(last.key) \notin {16, 24, 32}) <=> (last.err = "KeySizeError")
        /\ last.err = "KeySizeError" => last.out = <<>>

C2_Witness ==
    /\ last.op = "Encrypt" /\ Len(last.key) = 33
    /\ last.err = "KeySizeError" /\ last.out = <<>>

\* C3: Decrypt of an input shorter than NonceSize, the empty input included,
\* under a key of accepted length fails with ErrNoNonce and returns no
\* plaintext.
C3_ShortInput ==
    (last.op = "Decrypt" /\ ValidKey(last.key) /\ Len(last.in) < NonceSize)
        => (last.err = "ErrNoNonce" /\ last.out = <<>>)

C3_Witness ==
    /\ last.op = "Decrypt" /\ ValidKey(last.key) /\ Len(last.in) = NonceSize - 1
    /\ last.err = "ErrNoNonce" /\ last.out = <<>>

\* C4: decrypting an envelope with a valid key other than the one it was
\* sealed under fails with the authentication error and returns no plaintext.
C4_WrongKey ==
    (last.op = "Decrypt" /\ env.ok /\ last.in = env.enc
        /\ ValidKey(last.key) /\ last.key # env.key)
        => (last.err = "errOpen" /\ last.out = <<>>)

C4_Witness ==
    /\ last.op = "Decrypt" /\ env.ok /\ last.in = env.enc
    /\ Len(last.key) = Len(env.key) /\ last.key # env.key
    /\ last.err = "errOpen" /\ last.out = <<>>

\* C5: decrypting, with the right key, an envelope in which one bit of the
\* body (the bytes after the first NonceSize bytes) was flipped fails with the
\* authentication error and returns the empty plaintext.
C5_Tamper ==
    (last.op = "Decrypt" /\ env.ok /\ last.key = env.key
        /\ BodyBitFlip(env.enc, last.in))
        => (last.err = "errOpen" /\ last.out = <<>>)

C5_Witness ==
    /\ last.op = "Decrypt" /\ env.ok /\ last.key = env.key
    /\ BodyBitFlip(env.enc, last.in)
    /\ last.in[NonceSize + 1] # env.enc[NonceSize + 1]
    /\ Len(env.src) > 0
    /\ last.err = "errOpen" /\ last.out = <<>>

\* C6: under every interleaving of concurrent calls to RandBytes the seeding
\* runs at most once, a goroutine reads from the generator only after the one
\* seeding has completed, and later calls do not seed again.
C6_SeedOnce ==
    /\ seedings <= 1
    /\ \A g \in Goroutines :
          /\ pc[g] = "read" => (rng.seeded /\ seedings = 1)
          /\ calls[g] > 0 => (out[g].seeded /\ seedings = 1)

C6_Witness ==
    /\ seedings = 1
    /\ \E g, h \in Goroutines :
          /\ g # h
          /\ pc[g] = "unlock" /\ setSeed.done /\ calls[g] = 0
          /\ pc[h] = "lock" /\ calls[h] = 0

\* C7: no two envelopes returned by Encrypt under the same key carry the same
\* leading NonceSize bytes.
C7_NonceUnique ==
    \A i, j \in DOMAIN issued :
        (i < j /\ issued[i].key = issued[j].key) => issued[i].nonce # issued[j].nonce

\* C8: a successful Encrypt returns the nonce RandBytes drew in that call
\* followed by the sealed bytes of the plaintext under (key, nonce), so the
\* envelope is never shorter than NonceSize; Decrypt takes the first NonceSize
\* bytes of its input as the nonce and the rest as the body.
C8_WireFormat ==
    /\ (last.op = "Encrypt" /\ last.err = "nil") =>
          /\ Len(last.out) >= NonceSize
          /\ Len(last.out) = NonceSize + Len(last.in) + TagSize
          /\ last.nonce = GenBytes(rng.seed, rng.pos - NonceSize, NonceSize)
          /\ SubSeq(last.out, 1, NonceSize) = last.nonce
          /\ SubSeq(last.out, NonceSize + 1, Len(last.out))
                = GcmSeal(last.key, <<>>, last.nonce, last.in)
    /\ (last.op = "Decrypt" /\ ValidKey(last.key) /\ Len(last.in) >= NonceSize) =>
          /\ last.nonce = SubSeq(last.in, 1, NonceSize)
          /\ last.body = SubSeq(last.in, NonceSize + 1, Len(last.in))

C8_Witness ==
    /\ last.op = "Encrypt" /\ last.err = "nil" /\ Len(last.in) > 0
    /\ SubSeq(last.out, 1, NonceSize) = GenBytes(rng.seed, rng.pos - NonceSize, NonceSize)
    /\ Len(last.out) = NonceSize + Len(last.in) + TagSize

\* C9: Pbkdf2 never fails, returns a key of exactly 32 bytes, and returns the
\* key an earlier call returned for the same passphrase and salt, whatever
\* calls were made in between.
C9_Derive ==
    last.op = "Pbkdf2" =>
        /\ last.err = "nil"
        /\ Len(last.out) = 32
        /\ (derived.set /\ derived.pw = last.in /\ derived.salt = last.salt)
              => derived.key = last.out

C9_Witness ==
    /\ last.op = "Pbkdf2" /\ derived.set
    /\ derived.pw = last.in /\ derived.salt = last.salt
    /\ last.in = <<>>
    /\ rng.pos > derived.at /\ env.ok
    /\ derived.key = last.out /\ Len(last.out) = 32

\* C10: Decrypt examines the key first, then the length of the input, then the
\* tag: an invalid key gives the key error whatever the input, a valid key
\* with an input shorter than NonceSize gives ErrNoNonce, and a valid key with
\* an input of at least NonceSize bytes that is too short to hold a tag gives
\* the authentication error; one error is reported per call.
C10_Precedence ==
    last.op = "Decrypt" =>
        /\ last.err \in {"nil", "KeySizeError", "ErrNoNonce", "errOpen"}
        /\ ~ValidKey(last.key) => last.err = "KeySizeError"
        /\ (ValidKey(last.key) /\ Len(last.in) < NonceSize) => last.err = "ErrNoNonce"
        /\ (ValidKey(last.key) /\ Len(last.in) >= NonceSize
               /\ Len(last.in) < NonceSize + TagSize) => last.err = "errOpen"

C10_Witness ==
    /\ last.op = "Decrypt" /\ env.ok
    /\ ~ValidKey(last.key) /\ Len(last.in) < NonceSize
    /\ last.err = "KeySizeError"

====
